---- MODULE Spec2Model ----
(***************************************************************************)
(* SeismicGuard Pro (src/app.py): a Streamlit script that is re-run from   *)
(* top to bottom on every interaction of a browser session.  The state is  *)
(* the credential file users.json, the model artifacts on disk and their   *)
(* process-wide cache, and each session's st.session_state.                *)
(*                                                                         *)
(* Numbers entered in the form are kept in tenths (7.2 is 72).             *)
(***************************************************************************)
EXTENDS Integers, Sequences, FiniteSets, TLC

(* ---------------------------------------------------------------- bounds *)

\* Analyses recorded per session before the model stops adding more.
MaxHist == 2

(* ------------------------------------------------------------ input sets *)

Sessions == {"s1", "s2"}

\* Text typed in the username and password boxes ("" is an empty box).
Usernames == {"admin", "alice"}
Passwords == {"seismic2024", "pw1", "pw2"}
TypedUsernames == Usernames \cup {""}
TypedPasswords == Passwords \cup {""}

\* What two sessions registering at the same time type.
RaceUsernames == {"alice", "bob"}
RacePasswords == {"pw1", ""}

\* Values of the magnitude box; the other four boxes stay at their defaults.
Magnitudes == {50, 72}
FormDefaults == [dep |-> 150, mmi |-> 80, cdi |-> 75, sig |-> 600]

\* Wall-clock readings, already formatted "%H:%M:%S".
Clock == {"09:15:00"}

\* Contents output/feature_names.pkl may hold.
FeatureOrders ==
    { <<"magnitude", "depth", "cdi", "mmi", "sig">>,
      <<"magnitude", "depth", "mmi", "cdi", "sig">> }

\* Class indices the pickled classifier may answer.
ClassIdx == 0 .. 3

(* -------------------------------------------------------------- values *)

None == "<None>"

USER_DB_ABSENT == [kind |-> "absent", members |-> {}]
\* users.json just opened with mode "w": it exists and holds no text yet.
USER_DB_EMPTY == [kind |-> "empty", members |-> {}]

ARTIFACTS_MISSING == <<>>

MSG_INVALID == "Invalid Username or Password"
MSG_CREATED == "Account created! Please switch to Login tab."
MSG_EXISTS == "Username already exists."
MSG_BOTH == "Please enter both username and password."
MSG_NO_MODEL == "Model not loaded. Check your 'output' folder."
MSG_EXCEPTION == "json.JSONDecodeError"

levels == <<"LOW", "MEDIUM", "HIGH", "CRITICAL">>

NoFrame == [columns |-> <<>>, row |-> <<>>]
NoReg == [pc |-> "idle", users |-> <<>>, username |-> "", password |-> ""]

VARIABLES
    users_db,       \* the file users.json
    artifacts,      \* the three pickles under output/: missing, or the feature order they hold
    assets_cache,   \* st.cache_resource entry of load_assets
    session_state,  \* st.session_state of each browser session
    shown,          \* the message or result the last run of each session rendered
    input_df,       \* the frame the last analysis of each session handed to the scaler
    reg             \* save_user call of each session: position, local users, arguments

vars == <<users_db, artifacts, assets_cache, session_state, shown, input_df, reg>>

(* ------------------------------------------------------ credential store *)

\* json.dump of a dict of strings: one member per key.
json_dump(d) == [kind |-> "json", members |-> {<<k, d[k]>> : k \in DOMAIN d}]

\* json.load of a file json_dump wrote.
json_load(f) ==
    [k \in {m[1] : m \in f.members} |-> (CHOOSE m \in f.members : m[1] = k)[2]]

DefaultUsers == [k \in {"admin"} |-> "seismic2024"]

\* load_users() that hands back an empty dict when the file is missing.
load_users_no_default(f) ==
    IF f.kind = "absent" THEN [raised |-> FALSE, users |-> [k \in {} |-> ""]]
    ELSE IF f.kind = "empty" THEN [raised |-> TRUE, users |-> <<>>]
    ELSE [raised |-> FALSE, users |-> json_load(f)]

\* load_users(): raised is TRUE when json.load finds no document to parse.
load_users(f) ==
    IF f.kind = "absent" THEN [raised |-> FALSE, users |-> DefaultUsers]
    ELSE IF f.kind = "empty" THEN [raised |-> TRUE, users |-> <<>>]
    ELSE [raised |-> FALSE, users |-> json_load(f)]

\* users[username] = password
DictSet(users, username, password) ==
    [k \in DOMAIN users \cup {username} |->
        IF k = username THEN password ELSE users[k]]

\* save_user without the "if username in users" line.
save_user_overwrite(f, username, password) ==
    [ret |-> TRUE,
     file |-> json_dump(DictSet(load_users(f).users, username, password))]

\* save_user that dumps the dict before the new entry is put in it.
save_user_stale(f, username, password) ==
    LET users == load_users(f).users
    IN  IF username \in DOMAIN users
        THEN [ret |-> FALSE, file |-> f]
        ELSE [ret |-> TRUE, file |-> json_dump(users)]

\* save_user that dumps the new entry alone.
save_user_alone(f, username, password) ==
    LET users == load_users(f).users
    IN  IF username \in DOMAIN users
        THEN [ret |-> FALSE, file |-> f]
        ELSE [ret |-> TRUE, file |-> json_dump([k \in {username} |-> password])]

\* save_user run without interruption: its return value and the file it leaves.
save_user(f, username, password) ==
    LET users == load_users(f).users
    IN  IF username \in DOMAIN users
        THEN [ret |-> FALSE, file |-> f]
        ELSE [ret |-> TRUE, file |-> json_dump(DictSet(users, username, password))]

\* The sign-in test without the password comparison.
Authenticates_name_only(users, user, pw) == user \in DOMAIN users

\* The test of the Sign In button.
Authenticates(users, user, pw) == user \in DOMAIN users /\ users[user] = pw

(* ---------------------------------------------------------- model bundle *)

Unavailable == [available |-> FALSE, feature_names |-> <<>>]

\* The body of load_assets: the three pickles, or (None, None, None).
read_assets(a) ==
    IF a = ARTIFACTS_MISSING THEN Unavailable
    ELSE [available |-> TRUE, feature_names |-> a]

\* load_assets() without st.cache_resource: the body runs on every call.
load_assets_uncached(cache, a) == [loaded |-> TRUE, value |-> read_assets(a)]

\* load_assets() under st.cache_resource: the body runs on the first call only.
load_assets(cache, a) ==
    IF cache.loaded THEN cache ELSE [loaded |-> TRUE, value |-> read_assets(a)]

(* -------------------------------------------------------------- dashboard *)

\* pd.DataFrame([[mag, dep, cdi, mmi, sig]], columns=feature_names)
DataFrame(mag, feature_names) ==
    [columns |-> feature_names,
     row |-> <<mag, FormDefaults.dep, FormDefaults.cdi, FormDefaults.mmi, FormDefaults.sig>>]

\* history.append(entry)
HistoryAppend(history, entry) == history \o <<entry>>

\* st.session_state['history'].insert(0, entry)
HistoryInsert(history, entry) == <<entry>> \o history

(* ---------------------------------------------------------- session state *)

FreshSession == [logged_in |-> FALSE, user |-> None, history |-> <<>>]

Started(s) == DOMAIN session_state[s] # {}

TypeOK ==
    /\ users_db.kind \in {"absent", "empty", "json"}
    /\ \A s \in Sessions :
        Started(s) => /\ session_state[s].logged_in \in BOOLEAN
                      /\ Len(session_state[s].history) <= MaxHist

Init ==
    /\ users_db = USER_DB_ABSENT
    /\ artifacts \in FeatureOrders \cup {ARTIFACTS_MISSING}
    /\ assets_cache = [loaded |-> FALSE, value |-> Unavailable]
    /\ session_state = [s \in Sessions |-> <<>>]
    /\ shown = [s \in Sessions |-> ""]
    /\ input_df = [s \in Sessions |-> NoFrame]
    /\ reg = [s \in Sessions |-> NoReg]

(* ---------------------------------------------------------------- actions *)

\* First run of the script in a browser session: the three keys are set, the
\* assets are loaded (or taken from the cache) and the login page is drawn.
PageLoad(s) ==
    /\ ~Started(s)
    /\ session_state' = [session_state EXCEPT ![s] = FreshSession]
    /\ assets_cache' = load_assets(assets_cache, artifacts)
    /\ shown' = [shown EXCEPT ![s] = ""]
    /\ UNCHANGED <<users_db, artifacts, input_df, reg>>

\* The Sign In button of auth_page.
SignIn(s, user, pw) ==
    /\ Started(s)
    /\ ~session_state[s].logged_in
    /\ reg[s].pc = "idle"
    /\ assets_cache' = load_assets(assets_cache, artifacts)
    /\ LET r == load_users(users_db)
       IN  IF r.raised
           THEN /\ shown' = [shown EXCEPT ![s] = MSG_EXCEPTION]
                /\ UNCHANGED session_state
           ELSE IF Authenticates(r.users, user, pw)
           THEN /\ session_state' = [session_state EXCEPT ![s].logged_in = TRUE,
                                                          ![s].user = user]
                /\ shown' = [shown EXCEPT ![s] = ""]
           ELSE /\ shown' = [shown EXCEPT ![s] = MSG_INVALID]
                /\ UNCHANGED session_state
    /\ UNCHANGED <<users_db, artifacts, input_df, reg>>

\* The Register Now button of auth_page, run without interruption.
Register(s, new_user, new_pw) ==
    /\ Started(s)
    /\ ~session_state[s].logged_in
    /\ reg[s].pc = "idle"
    /\ users_db.kind # "empty"
    /\ assets_cache' = load_assets(assets_cache, artifacts)
    /\ IF new_user # "" /\ new_pw # ""
       THEN LET r == save_user(users_db, new_user, new_pw)
            IN  /\ users_db' = r.file
                /\ shown' = [shown EXCEPT ![s] = IF r.ret THEN MSG_CREATED ELSE MSG_EXISTS]
       ELSE /\ shown' = [shown EXCEPT ![s] = MSG_BOTH]
            /\ UNCHANGED users_db
    /\ UNCHANGED <<artifacts, session_state, input_df, reg>>

\* The Logout button of the sidebar.
Logout(s) ==
    /\ Started(s)
    /\ session_state[s].logged_in
    /\ assets_cache' = load_assets(assets_cache, artifacts)
    /\ session_state' = [session_state EXCEPT ![s].logged_in = FALSE]
    /\ shown' = [shown EXCEPT ![s] = ""]
    /\ UNCHANGED <<users_db, artifacts, input_df, reg>>

\* The RUN AI ANALYSIS button of the Prediction Center; pred_idx is the
\* classifier's answer and now the clock reading.
RunAnalysis(s, mag, pred_idx, now) ==
    /\ Started(s)
    /\ session_state[s].logged_in
    /\ LET assets == load_assets(assets_cache, artifacts)
       IN  /\ assets_cache' = assets
           /\ IF ~assets.value.available
              THEN /\ shown' = [shown EXCEPT ![s] = MSG_NO_MODEL]
                   /\ UNCHANGED <<session_state, input_df>>
              ELSE /\ Len(session_state[s].history) < MaxHist
                   /\ input_df' = [input_df EXCEPT
                                     ![s] = DataFrame(mag, assets.value.feature_names)]
                   /\ session_state' =
                        [session_state EXCEPT ![s].history =
                            HistoryInsert(@, [Time |-> now,
                                              Magnitude |-> mag,
                                              Level |-> levels[pred_idx + 1]])]
                   /\ shown' = [shown EXCEPT ![s] = levels[pred_idx + 1]]
    /\ UNCHANGED <<users_db, artifacts, reg>>

\* The operator puts the three pickles in place while the process runs.
DeployArtifacts(order) ==
    /\ artifacts = ARTIFACTS_MISSING
    /\ artifacts' = order
    /\ UNCHANGED <<users_db, assets_cache, session_state, shown, input_df, reg>>

\* One browser session, every handler run to its end.
Next ==
    \/ \E s \in {"s1"} :
        \/ PageLoad(s)
        \/ \E user \in TypedUsernames, pw \in TypedPasswords : SignIn(s, user, pw)
        \/ \E new_user \in TypedUsernames, new_pw \in TypedPasswords :
              Register(s, new_user, new_pw)
        \/ Logout(s)
        \/ \E mag \in Magnitudes, pred_idx \in ClassIdx, now \in Clock :
              RunAnalysis(s, mag, pred_idx, now)
    \/ \E order \in FeatureOrders : DeployArtifacts(order)

Spec == Init /\ [][Next]_vars

(* ------------------------------------------- save_user, one file access a step *)

\* Register Now up to the return of load_users() inside save_user: the local
\* dict users is read from the file and, for a new name, gets its entry.
RegLoad(s, new_user, new_pw) ==
    /\ Started(s)
    /\ ~session_state[s].logged_in
    /\ reg[s].pc = "idle"
    /\ assets_cache' = load_assets(assets_cache, artifacts)
    /\ IF new_user # "" /\ new_pw # ""
       THEN LET r == load_users(users_db)
            IN  IF r.raised
                THEN /\ shown' = [shown EXCEPT ![s] = MSG_EXCEPTION]
                     /\ reg' = [reg EXCEPT ![s] = [NoReg EXCEPT !.username = new_user,
                                                               !.password = new_pw]]
                ELSE IF new_user \in DOMAIN r.users
                THEN /\ shown' = [shown EXCEPT ![s] = MSG_EXISTS]
                     /\ reg' = [reg EXCEPT ![s] = [NoReg EXCEPT !.username = new_user,
                                                               !.password = new_pw]]
                ELSE /\ shown' = [shown EXCEPT ![s] = ""]
                     /\ reg' = [reg EXCEPT ![s] =
                                  [pc |-> "open",
                                   users |-> DictSet(r.users, new_user, new_pw),
                                   username |-> new_user,
                                   password |-> new_pw]]
       ELSE /\ shown' = [shown EXCEPT ![s] = MSG_BOTH]
            /\ reg' = [reg EXCEPT ![s] = [NoReg EXCEPT !.username = new_user,
                                                      !.password = new_pw]]
    /\ UNCHANGED <<users_db, artifacts, session_state, input_df>>

\* open(USER_DB, "w"): the file is created or cut to nothing.
RegOpen(s) ==
    /\ reg[s].pc = "open"
    /\ users_db' = USER_DB_EMPTY
    /\ reg' = [reg EXCEPT ![s].pc = "dump"]
    /\ UNCHANGED <<artifacts, assets_cache, session_state, shown, input_df>>

\* A dump that re-reads the file and keeps what other writers put there.
RegDumpMerge(s) ==
    /\ reg[s].pc = "dump"
    /\ users_db' = [kind |-> "json",
                    members |-> users_db.members \cup json_dump(reg[s].users).members]
    /\ reg' = [reg EXCEPT ![s].pc = "idle"]
    /\ shown' = [shown EXCEPT ![s] = MSG_CREATED]
    /\ UNCHANGED <<artifacts, assets_cache, session_state, input_df>>

\* json.dump(users, f) and the close of the file; save_user returns True.
RegDump(s) ==
    /\ reg[s].pc = "dump"
    /\ users_db' = json_dump(reg[s].users)
    /\ reg' = [reg EXCEPT ![s].pc = "idle"]
    /\ shown' = [shown EXCEPT ![s] = MSG_CREATED]
    /\ UNCHANGED <<artifacts, assets_cache, session_state, input_df>>

\* Two browser sessions whose script runs interleave at the file accesses.
NextRace ==
    \E s \in Sessions :
        \/ PageLoad(s)
        \/ \E new_user \in RaceUsernames, new_pw \in RacePasswords :
              RegLoad(s, new_user, new_pw)
        \/ RegOpen(s)
        \/ RegDump(s)
        \/ \E user \in RaceUsernames, pw \in RacePasswords : SignIn(s, user, pw)
        \/ Logout(s)

SpecRace == Init /\ [][NextRace]_vars

(* ----------------------------------------------------------------- claims *)

\* The mapping load_users() reads from the file as it stands.
Stored == load_users(users_db).users
StoredNext == load_users(users_db').users

\* C1: registering a username the store already holds returns failure, the
\* form reports the conflict, and the file and every entry read from it are
\* what they were, whatever password is submitted.
C1_DuplicateRegisterRejected ==
    [][\A s \in Sessions, u \in TypedUsernames, p \in TypedPasswords :
          (Register(s, u, p) /\ u \in DOMAIN Stored) =>
              /\ ~save_user(users_db, u, p).ret
              /\ save_user(users_db, u, p).file = users_db
              /\ users_db' = users_db
              /\ StoredNext = Stored
              /\ (p # "" => shown'[s] = MSG_EXISTS)]_vars

\* C1 happens: a registration was refused while alice keeps her first password.
C1_Witness ==
    /\ shown["s1"] = MSG_EXISTS
    /\ users_db.kind = "json"
    /\ <<"alice", "pw1">> \in users_db.members

C3_SignInExactlyOnMatch ==
    [][\A s \in Sessions, u \in TypedUsernames, p \in TypedPasswords :
          SignIn(s, u, p) =>
              IF u \in DOMAIN Stored /\ Stored[u] = p
              THEN /\ session_state'[s].logged_in
                   /\ session_state'[s].user = u
                   /\ session_state'[s].history = session_state[s].history
                   /\ users_db' = users_db
              ELSE /\ session_state'[s] = session_state[s]
                   /\ ~session_state'[s].logged_in
                   /\ shown'[s] = MSG_INVALID
                   /\ users_db' = users_db]_vars

\* C3 happens: a sign-in was refused in a session that holds history from an
\* earlier successful sign-in.
C3_Witness ==
    /\ Started("s1")
    /\ shown["s1"] = MSG_INVALID
    /\ ~session_state["s1"].logged_in
    /\ Len(session_state["s1"].history) > 0

\* C4: right after Logout, logged_in is false and user is none.
C4_LogoutResetsUser ==
    [][\A s \in Sessions :
          Logout(s) => /\ ~session_state'[s].logged_in
                       /\ session_state'[s].user = None]_vars

\* C5: with no users.json, Sign In as admin/seismic2024 logs in as admin and
\* the file is still absent afterwards.
C5_DefaultAdminSignIn ==
    [][\A s \in Sessions :
          (SignIn(s, "admin", "seismic2024") /\ users_db = USER_DB_ABSENT) =>
              /\ session_state'[s].logged_in
              /\ session_state'[s].user = "admin"
              /\ users_db' = USER_DB_ABSENT]_vars

\* C5 happens: admin is logged in and there is no users.json.
C5_Witness ==
    /\ Started("s1")
    /\ session_state["s1"].logged_in
    /\ session_state["s1"].user = "admin"
    /\ users_db = USER_DB_ABSENT

\* C6: the write of save_user replaces the whole file by the writer's own
\* copy: after it the file holds no username the writer did not read or add,
\* so a registration another session completed in between is gone.
C6_WriteKeepsOnlyOwnCopy ==
    [][\A s \in Sessions :
          RegDump(s) => /\ users_db'.kind = "json"
                        /\ StoredNext = reg[s].users
                        /\ shown'[s] = MSG_CREATED]_vars

\* C6 happens: both sessions were told their account was created, for two
\* different usernames, and the file holds only one of the two.
C6_Witness ==
    /\ shown["s1"] = MSG_CREATED /\ shown["s2"] = MSG_CREATED
    /\ reg["s1"].pc = "idle" /\ reg["s2"].pc = "idle"
    /\ reg["s1"].username = "alice" /\ reg["s2"].username = "bob"
    /\ users_db.kind = "json"
    /\ "bob" \in DOMAIN Stored
    /\ "alice" \notin DOMAIN Stored

\* C7: once load_assets() has cached the failed load, the cache entry never
\* changes, no history or frame changes, no level is rendered, and every Run
\* Analysis renders the model-not-loaded error.
C7_UnavailableShortCircuits ==
    [][(assets_cache.loaded /\ ~assets_cache.value.available) =>
          /\ assets_cache' = assets_cache
          /\ input_df' = input_df
          /\ \A s \in Sessions :
                /\ Started(s) => session_state'[s].history = session_state[s].history
                /\ \A i \in 1 .. Len(levels) : shown'[s] # levels[i]
                /\ \A mag \in Magnitudes, pred_idx \in ClassIdx, now \in Clock :
                      RunAnalysis(s, mag, pred_idx, now) => shown'[s] = MSG_NO_MODEL]_vars

\* C7 happens: Run Analysis was refused although the pickles are in place now.
C7_Witness ==
    /\ assets_cache.loaded
    /\ ~assets_cache.value.available
    /\ artifacts # ARTIFACTS_MISSING
    /\ shown["s1"] = MSG_NO_MODEL

\* C8: a successful analysis grows the history by one entry, puts the entry of
\* this analysis (its magnitude, its predicted level) at position 0 and keeps
\* the earlier entries in their order behind it.
C8_HistoryNewestFirst ==
    [][\A s \in Sessions, mag \in Magnitudes, pred_idx \in ClassIdx, now \in Clock :
          (RunAnalysis(s, mag, pred_idx, now)
              /\ load_assets(assets_cache, artifacts).value.available) =>
              LET old == session_state[s].history
                  new == session_state'[s].history
              IN  /\ Len(new) = Len(old) + 1
                  /\ new[1].Magnitude = mag
                  /\ new[1].Level = levels[pred_idx + 1]
                  /\ shown'[s] = new[1].Level
                  /\ \A k \in 1 .. Len(old) : new[k + 1] = old[k]]_vars

\* C8 happens: two analyses with different magnitudes and levels are recorded.
C8_Witness ==
    /\ Started("s1")
    /\ Len(session_state["s1"].history) >= 2
    /\ session_state["s1"].history[1].Magnitude # session_state["s1"].history[2].Magnitude
    /\ session_state["s1"].history[1].Level # session_state["s1"].history[2].Level

NamedInput(name, mag) ==
    CASE name = "magnitude" -> mag
      [] name = "depth" -> FormDefaults.dep
      [] name = "mmi" -> FormDefaults.mmi
      [] name = "cdi" -> FormDefaults.cdi
      [] name = "sig" -> FormDefaults.sig

\* C10: in the frame handed to the scaler, every column holds the input its
\* feature name stands for, whatever order the feature-name list has.
C10_FrameFollowsFeatureOrder ==
    \A s \in Sessions :
        input_df[s] # NoFrame =>
            \A i \in 1 .. Len(input_df[s].columns) :
                input_df[s].row[i] =
                    NamedInput(input_df[s].columns[i],
                               session_state[s].history[1].Magnitude)

====
